---------------------------- MODULE Spec2Model ----------------------------
(***************************************************************************)
(* Model of streamlit_app.py: the Real Estate ROI calculator and its PDF   *)
(* report generator create_pdf_with_charts.                                *)
(*                                                                         *)
(* A session is one run of the script (Streamlit runs every session's      *)
(* script in a thread of one Python process): sliders, calculations,       *)
(* on-screen display, the download button and, when it is clicked,         *)
(* create_pdf_with_charts, one statement group per step.  The sessions     *)
(* share what the process shares: pyplot's figure registry (plt.subplots,  *)
(* plt.tight_layout, plt.close), the temporary directory and the clock.    *)
(*                                                                         *)
(* Python floats are IEEE-754 binary64.  A float is modelled exactly, as   *)
(* <<m, e>>: the value m * 2^e, m a natural of exactly 53 bits held as a   *)
(* sequence of 10-bit limbs, least significant first; zero is <<<<>>, 0>>. *)
(* Every float operation rounds to 53 significant bits, to nearest, ties   *)
(* to even, as the hardware does.  The magnitudes of this program stay     *)
(* far from overflow and from the subnormal range.                         *)
(***************************************************************************)
EXTENDS Integers, Sequences, FiniteSets, TLC

(***************************************************************************)
(* Naturals of any size: sequences of limbs, least significant first, with *)
(* no zero limb at the top.                                                *)
(***************************************************************************)
LIMB_BITS == 10
LIMB == 2 ^ LIMB_BITS

RECURSIVE BigFromNat(_)
BigFromNat(n) ==
    IF n = 0 THEN <<>> ELSE <<n % LIMB>> \o BigFromNat(n \div LIMB)

RECURSIVE BigToNat(_)
BigToNat(a) == IF a = <<>> THEN 0 ELSE a[1] + LIMB * BigToNat(Tail(a))

RECURSIVE Trim(_)
Trim(a) ==
    IF a = <<>> THEN <<>>
    ELSE IF a[Len(a)] # 0 THEN a ELSE Trim(SubSeq(a, 1, Len(a) - 1))

\* a * k for a natural k < 2^20.
RECURSIVE MulFrom(_, _, _, _)
MulFrom(a, i, carry, k) ==
    IF i > Len(a) THEN BigFromNat(carry)
    ELSE LET v == a[i] * k + carry
         IN  <<v % LIMB>> \o MulFrom(a, i + 1, v \div LIMB, k)

BigMulSmall(a, k) == Trim(MulFrom(a, 1, 0, k))

\* a divided by a natural d, 0 < d < 2^20: quotient and remainder.
RECURSIVE DivFrom(_, _, _, _)
DivFrom(a, i, rem, d) ==
    IF i = 0 THEN [q |-> <<>>, r |-> rem]
    ELSE LET v    == rem * LIMB + a[i]
             rest == DivFrom(a, i - 1, v % d, d)
         IN  [q |-> Append(rest.q, v \div d), r |-> rest.r]

BigDivSmall(a, d) ==
    LET qr == DivFrom(a, Len(a), 0, d) IN [q |-> Trim(qr.q), r |-> qr.r]

\* -1, 0 or 1 as a < b, a = b or a > b.
RECURSIVE CmpFrom(_, _, _)
CmpFrom(a, b, i) ==
    IF i = 0 THEN 0
    ELSE IF a[i] < b[i] THEN -1
    ELSE IF a[i] > b[i] THEN 1
    ELSE CmpFrom(a, b, i - 1)

BigCmp(a, b) ==
    IF Len(a) < Len(b) THEN -1
    ELSE IF Len(a) > Len(b) THEN 1
    ELSE CmpFrom(a, b, Len(a))

\* a - b for a >= b.
RECURSIVE SubFrom(_, _, _, _)
SubFrom(a, b, i, borrow) ==
    IF i > Len(a) THEN <<>>
    ELSE LET v == a[i] - (IF i <= Len(b) THEN b[i] ELSE 0) - borrow
         IN  IF v < 0 THEN <<v + LIMB>> \o SubFrom(a, b, i + 1, 1)
                      ELSE <<v>> \o SubFrom(a, b, i + 1, 0)

BigSub(a, b) == Trim(SubFrom(a, b, 1, 0))

RECURSIVE IncFrom(_, _)
IncFrom(a, i) ==
    IF i > Len(a) THEN <<1>>
    ELSE IF a[i] + 1 < LIMB THEN <<a[i] + 1>> \o SubSeq(a, i + 1, Len(a))
    ELSE <<0>> \o IncFrom(a, i + 1)

BigInc(a) == IncFrom(a, 1)

BitLen(a) ==
    IF a = <<>> THEN 0
    ELSE (Len(a) - 1) * LIMB_BITS
         + (CHOOSE n \in 1..LIMB_BITS :
                2 ^ (n - 1) <= a[Len(a)] /\ a[Len(a)] < 2 ^ n)

BigOdd(a) == a # <<>> /\ a[1] % 2 = 1

\* a * 2^s.
ShiftLeft(a, s) ==
    IF a = <<>> THEN <<>>
    ELSE [i \in 1..(s \div LIMB_BITS) |-> 0]
         \o BigMulSmall(a, 2 ^ (s % LIMB_BITS))

\* a \div 2^s, and whether the part shifted out is nonzero.
ShiftRight(a, s) ==
    LET drop == s \div LIMB_BITS
        kept == IF drop >= Len(a) THEN <<>> ELSE SubSeq(a, drop + 1, Len(a))
        lost == \E i \in 1..Len(a) : i <= drop /\ a[i] # 0
        qr   == BigDivSmall(kept, 2 ^ (s % LIMB_BITS))
    IN  [q |-> qr.q, sticky |-> lost \/ qr.r # 0]

(***************************************************************************)
(* binary64 values and operations.                                         *)
(***************************************************************************)
MANT_BITS == 53
GUARD_BITS == 30

FZero == <<<<>>, 0>>

\* What a division by zero gives in place of a float: Python raises
\* ZeroDivisionError.
ZeroDivision == <<<<>>, -1>>

\* Round n * 2^e (plus "sticky": a nonzero part below n's last bit) to a
\* binary64: to nearest, ties to even.
Round53(n, e, sticky) ==
    LET len == BitLen(n)
    IN  IF n = <<>> THEN FZero
        ELSE IF len <= MANT_BITS
        THEN <<ShiftLeft(n, MANT_BITS - len), e - (MANT_BITS - len)>>
        ELSE LET sr  == ShiftRight(n, len - MANT_BITS - 1)
                 top == ShiftRight(sr.q, 1).q
                 up  == BigOdd(sr.q) /\ (sticky \/ sr.sticky \/ BigOdd(top))
                 m   == IF up THEN BigInc(top) ELSE top
             IN  IF BitLen(m) > MANT_BITS
                 THEN <<ShiftRight(m, 1).q, e + len - MANT_BITS + 1>>
                 ELSE <<m, e + len - MANT_BITS>>

\* int -> float (exact for the ints of this program, all below 2^53).
FromInt(n) == Round53(BigFromNat(n), 0, FALSE)

\* x / d for a float x and a float d that is a whole number, 0 < d < 2^20
\* (the program divides by 100.0 and by 4.0 only).
FDiv(x, d) ==
    IF d = 0 \/ x = ZeroDivision THEN ZeroDivision
    ELSE IF x = FZero THEN FZero
    ELSE LET qr == BigDivSmall(ShiftLeft(x[1], GUARD_BITS), d)
         IN  Round53(qr.q, x[2] - GUARD_BITS, qr.r # 0)

\* k * x for an int k, 0 <= k < 2^20 (converted to float exactly), and a
\* float x.
FMul(k, x) ==
    IF x = ZeroDivision THEN ZeroDivision
    ELSE IF k = 0 \/ x = FZero THEN FZero
    ELSE Round53(BigMulSmall(x[1], k), x[2], FALSE)

\* The whole number nearest to n * 2^e, ties to even: what Python's format
\* does with the exact binary value of a float.
RoundToInt(n, e) ==
    IF n = <<>> THEN 0
    ELSE IF e >= 0 THEN BigToNat(ShiftLeft(n, e))
    ELSE LET sr == ShiftRight(n, (-e) - 1)
             ip == ShiftRight(sr.q, 1).q
             up == BigOdd(sr.q) /\ (sr.sticky \/ BigOdd(ip))
         IN  BigToNat(ip) + (IF up THEN 1 ELSE 0)

(***************************************************************************)
(* Python string formatting.                                               *)
(***************************************************************************)
Pad3(n) ==
    IF n < 10 THEN "00" \o ToString(n)
    ELSE IF n < 100 THEN "0" \o ToString(n) ELSE ToString(n)

RECURSIVE Grouped(_)
Grouped(n) ==
    IF n < 1000 THEN ToString(n)
    ELSE Grouped(n \div 1000) \o "," \o Pad3(n % 1000)

\* f"{x:,.0f}" for a float x >= 0.
FormatThousands(x) == Grouped(RoundToInt(x[1], x[2]))

\* f"{x:.2f}" for a float x >= 0.
FormatTwoDecimals(x) ==
    LET v == RoundToInt(BigMulSmall(x[1], 100), x[2])
    IN  ToString(v \div 100) \o "."
        \o (IF v % 100 < 10 THEN "0" ELSE "") \o ToString(v % 100)

\* "${:,.0f}" and f"{x:.2f}%".
Usd(x) == "$" \o FormatThousands(x)
Pct(x) == FormatTwoDecimals(x) \o "%"

(***************************************************************************)
(* The sliders (lines 17-33).                                              *)
(***************************************************************************)
PRICE_MIN == 0
PRICE_MAX == 1000000
PRICE_DEFAULT == 200000
PRICE_STEP == 1000

\* The rent slider runs from 0.0 to 100.0 in steps of 0.1: position t is the
\* float nearest to t / 10.
RENT_POSITIONS == 1000
RENT_DEFAULT_POSITION == 60
RentValue(t) == FDiv(FromInt(t), 10)

\* Bounds of the input grids.
MaxPriceIdx == 4
MaxRentIdx == 12
MaxClock == 1

Sessions == {"s1", "s2"}

\* The layout variants of a report; the one a caller wants is "variant".
Variants == {"plain", "illustrated"}

\* The slider positions the model draws its inputs from.
GridPrices ==
    {k * PRICE_STEP : k \in 0..MaxPriceIdx} \cup {PRICE_DEFAULT, PRICE_MAX}
GridRents ==
    (0..MaxRentIdx) \cup {RENT_DEFAULT_POSITION, RENT_POSITIONS - 1, RENT_POSITIONS}

VARIABLES
    purchase_price,  \* session -> int: the price slider
    rent_pct,        \* session -> float: the rent slider
    variant,         \* the layout variant the caller wants; nothing reads it
    pc,              \* session -> the statement group it executes next
    calc,            \* session -> rent_decimal .. quarterly_roi_pct (lines 40-45)
    df_quarters,     \* session -> rows of the DataFrame (lines 47-52)
    screen,          \* session -> what st.metric and st.table show
    figs,            \* pyplot: the registered figures, the current one last
    figure,          \* figure id -> the Figure object
    name_seq,        \* tempfile: names handed out so far
    fs,              \* temporary directory: name -> file
    tmp_bar,         \* session -> the handle tmp_bar
    tmp_pie,         \* session -> the handle tmp_pie
    pdf,             \* session -> the FPDF object
    row,             \* session -> rows of df_quarters the table loop has done
    pdf_bytes,       \* session -> <<>> or <<the bytes of line 282>>
    returned,        \* session -> <<>> or <<the bytes the call returned>>
    download,        \* session -> <<>> or <<the download button offered>>
    exc,             \* session -> <<>> or <<the exception that ended its run>>
    clock            \* the system clock

vars == <<purchase_price, rent_pct, variant, pc, calc, df_quarters, screen,
          figs, figure, name_seq, fs, tmp_bar, tmp_pie, pdf, row, pdf_bytes,
          returned, download, exc, clock>>

inputs == <<purchase_price, rent_pct, variant>>
script == <<calc, df_quarters, screen>>
pyplot == <<figs, figure>>
tmpdir == <<name_seq, fs, tmp_bar, tmp_pie>>
report == <<pdf, row>>
result == <<pdf_bytes, returned, download>>

(***************************************************************************)
(* The calculations (lines 40-57).                                         *)
(***************************************************************************)
RentDecimal(rp) == FDiv(rp, 100)
AnnualRent(price, rd) == FMul(price, rd)
\* Mutant of QuarterlyRent: divides by the 3 months of a quarter.
QuarterlyRentByMonths(ar) == FDiv(ar, 3)

QuarterlyRent(ar) == FDiv(ar, 4)
AnnualRoiPct(rp) == rp
QuarterlyRoiPct(arp) == FDiv(arp, 4)

Metrics(price, rp) ==
    LET rd == RentDecimal(rp)
        ar == AnnualRent(price, rd)
        ap == AnnualRoiPct(rp)
    IN  [rent_decimal      |-> rd,
         annual_rent       |-> ar,
         quarterly_rent    |-> QuarterlyRent(ar),
         annual_roi_pct    |-> ap,
         quarterly_roi_pct |-> QuarterlyRoiPct(ap)]

NoMetrics ==
    [rent_decimal |-> FZero, annual_rent |-> FZero, quarterly_rent |-> FZero,
     annual_roi_pct |-> FZero, quarterly_roi_pct |-> FZero]

quarters == <<"Q1", "Q2", "Q3", "Q4">>

\* pd.DataFrame({"Quarter": quarters, "Rent (USD)": [quarterly_rent] * 4})
QuartersFrame(qr) ==
    [i \in 1..Len(quarters) |-> [Quarter |-> quarters[i], Rent |-> qr]]

(***************************************************************************)
(* What the page shows (lines 62-79): six metrics and the quarterly table. *)
(***************************************************************************)
SummaryMetrics(price, m) ==
    << <<"Purchase Price (USD)", Usd(FromInt(price))>>,
       <<"Annual Rent (USD)", Usd(m.annual_rent)>>,
       <<"Annual ROI (%)", Pct(m.annual_roi_pct)>>,
       <<"Quarterly Rent (USD)", Usd(m.quarterly_rent)>>,
       <<"Quarterly ROI (%)", Pct(m.quarterly_roi_pct)>>,
       <<"Total ROI (First Year)", Pct(m.annual_roi_pct)>> >>

\* st.table(df_quarters.style.format({"Rent (USD)": "${:,.0f}"}))
StyledTable(df) == [i \in 1..Len(df) |-> <<df[i].Quarter, Usd(df[i].Rent)>>]

NoScreen == [metrics |-> <<>>, table |-> <<>>]

(***************************************************************************)
(* pyplot and the figures (lines 155-189).  A figure id is <<session,      *)
(* chart>>; a Figure holds what was drawn on its axes and the layout the   *)
(* last tight_layout gave it: <<>> (the default subplot parameters) or     *)
(* <<what was on the axes when it was laid out>>.  "by" is the set of      *)
(* sessions that have written the figure.                                  *)
(***************************************************************************)
Charts == {"bar", "pie"}
FigIds == Sessions \X Charts

NoFigure == [made |-> FALSE, figsize |-> <<0, 0>>, axes |-> <<>>,
             layout |-> <<>>, by |-> {}]

\* plt.subplots(figsize=..., facecolor="black"): a new figure, blank axes.
Subplots(figsize, s) ==
    [made |-> TRUE, figsize |-> figsize, axes |-> <<>>, layout |-> <<>>,
     by |-> {s}]

\* ax_bar.bar(...) and the styling of lines 156-163.
BarArtists(df) ==
    << [artist |-> "bar",
        x      |-> [i \in 1..Len(df) |-> df[i].Quarter],
        height |-> [i \in 1..Len(df) |-> df[i].Rent],
        title  |-> "Quarterly Rent Distribution"] >>

\* Lines 172-173.
categories == <<"Capital (Purchase Price)", "Annual Rent (Return)">>
PieValues(price, ar) == <<FromInt(price), ar>>

\* Axes.pie normalises the wedge sizes by their sum: x / x.sum().  With a
\* zero sum the sizes are 0/0: Matplotlib from 3.5 on raises ValueError
\* ("cannot convert float NaN to integer", later "All wedge sizes are
\* zero"); releases before 3.5 skip the normalisation of a sum below 1 and
\* draw wedges of zero width.
PieDrawable(values) == \E i \in 1..Len(values) : values[i] # FZero

\* autopct=lambda pct: f"{pct:.1f}%" if pct > 0 else "": a slice of value 0
\* has pct = 0 and the empty label; any other slice shows its percentage
\* with one decimal.
AutoPct(values) ==
    [i \in 1..Len(values) |-> IF values[i] # FZero THEN "{pct:.1f}%" ELSE ""]

PieArtists(values) ==
    << [artist    |-> "pie",
        labels    |-> categories,
        x         |-> values,
        autotexts |-> AutoPct(values),
        title     |-> "Capital vs Annual Rent (Return)"] >>

\* Figure.tight_layout(): the subplot parameters that fit what is on the axes.
TightLayout(f, s) == [f EXCEPT !.layout = <<f.axes>>, !.by = @ \cup {s}]

\* plt.gcf(): the figure registered last.
CurrentFigure == figs[Len(figs)]

\* fig.savefig(name, dpi=150, facecolor="black"): the PNG of a figure.
Png(f) == [figsize |-> f.figsize, axes |-> f.axes, layout |-> f.layout]

\* The registry without figure id.
Unregister(registry, id) ==
    SelectSeq(registry, LAMBDA k : k # id)

(***************************************************************************)
(* Temporary files (lines 166, 187, 285-291).  A handle is <<>> before     *)
(* NamedTemporaryFile returns and <<[name, closed]>> after; a file holds   *)
(* <<>> (nothing written yet) or <<a PNG>>.                                *)
(***************************************************************************)
Names == 1..(2 * Cardinality(Sessions))
NoFile == [exists |-> FALSE, data |-> <<>>]
EmptyFile == [exists |-> TRUE, data |-> <<>>]

(***************************************************************************)
(* FPDF (lines 192-282).  A page is the sequence of what was put on it, in *)
(* the order it was put: later marks cover earlier ones.  Cells flow from  *)
(* the cursor, which the model does not track.                             *)
(***************************************************************************)
\* FPDF(format="letter", unit="pt"): pdf.w and pdf.h.
PAGE_W == 612
PAGE_H == 792

BLACK == <<0, 0, 0>>
WHITE == <<255, 255, 255>>
LIGHT_GRAY == <<200, 200, 200>>

NoPdf ==
    [made |-> FALSE, pages |-> <<>>, fill_color |-> BLACK,
     text_color |-> BLACK, draw_color |-> BLACK, line_width |-> <<>>,
     font |-> <<>>]

FPDF == [NoPdf EXCEPT !.made = TRUE]

Put(p, mark) == [p EXCEPT !.pages[Len(p.pages)] = Append(@, mark)]

add_page(p) == [p EXCEPT !.pages = Append(@, <<>>)]
set_fill_color(p, c) == [p EXCEPT !.fill_color = c]
set_text_color(p, c) == [p EXCEPT !.text_color = c]
set_draw_color(p, c) == [p EXCEPT !.draw_color = c]
set_line_width(p, w) == [p EXCEPT !.line_width = <<w>>]
set_font(p, family, style, size) == [p EXCEPT !.font = <<family, style, size>>]

rect(p, x, y, w, h, style) ==
    Put(p, [op |-> "rect", x |-> x, y |-> y, w |-> w, h |-> h,
            style |-> style, fill_color |-> p.fill_color,
            draw_color |-> p.draw_color, line_width |-> p.line_width])

text(p, x, y, txt) ==
    Put(p, [op |-> "text", x |-> x, y |-> y, txt |-> txt, font |-> p.font,
            text_color |-> p.text_color])

cell(p, w, h, txt, border, fill, align, newline) ==
    Put(p, [op |-> "cell", w |-> w, h |-> h, txt |-> txt, border |-> border,
            fill |-> fill, align |-> align, ln |-> newline, font |-> p.font,
            fill_color |-> p.fill_color, text_color |-> p.text_color])

ln(p, h) == Put(p, [op |-> "ln", h |-> h])

image(p, png, x, y, w) ==
    Put(p, [op |-> "image", png |-> png, x |-> x, y |-> y, w |-> w])

\* Lines 143-151: black background, then the white border.
page_setup(p) ==
    LET margin == 30
        p1 == set_fill_color(p, BLACK)
        p2 == rect(p1, 0, 0, PAGE_W, PAGE_H, "F")
        p3 == set_line_width(p2, 2)
        p4 == set_draw_color(p3, WHITE)
    IN  rect(p4, margin, margin, PAGE_W - 2 * margin, PAGE_H - 2 * margin, "")

\* Lines 198-221: logo placeholder, contact info, report title.
Branding(p) ==
    LET logo_w == 100
        logo_h == 50
        logo_x == 20
        logo_y == 20
        contact_x == logo_x + logo_w + 20
        contact_y == logo_y + 15
        p1 == set_fill_color(p, WHITE)
        p2 == rect(p1, logo_x, logo_y, logo_w, logo_h, "F")
        p3 == set_text_color(set_font(p2, "Helvetica", "B", 16), BLACK)
        p4 == text(p3, logo_x + (logo_w \div 2) - 15,
                   logo_y + (logo_h \div 2) + 5, "LOGO")
        p5 == set_text_color(set_font(p4, "Helvetica", "", 11), WHITE)
        p6 == text(p5, contact_x, contact_y, "Contact: 123-456-7890")
        p7 == text(p6, contact_x, contact_y + 15, "Email: dummy@example.com")
        p8 == set_text_color(set_font(p7, "Helvetica", "B", 18), WHITE)
        p9 == text(p8, logo_x, logo_y + logo_h + 40, "Real Estate ROI Report")
    IN  ln(p9, logo_h + 60)

\* Lines 223-230.
InputParameters(p, price, rp) ==
    LET p1 == set_text_color(set_font(p, "Helvetica", "", 12), WHITE)
        p2 == cell(p1, 0, 16, "1. Input Parameters:", 0, FALSE, "", TRUE)
        p3 == set_font(p2, "Helvetica", "", 11)
        p4 == cell(p3, 0, 14,
                   "   - Purchase Price:        " \o Usd(FromInt(price)),
                   0, FALSE, "", TRUE)
        p5 == cell(p4, 0, 14, "   - Annual Rent Yield (%):  " \o Pct(rp),
                   0, FALSE, "", TRUE)
    IN  ln(p5, 8)

\* Lines 232-240.
ComputedOutputs(p, ar, arp, qr, qrp) ==
    LET p1 == set_font(p, "Helvetica", "", 12)
        p2 == cell(p1, 0, 16, "2. Computed Outputs:", 0, FALSE, "", TRUE)
        p3 == set_font(p2, "Helvetica", "", 11)
        p4 == cell(p3, 0, 14, "   - Annual Rent (USD):      " \o Usd(ar),
                   0, FALSE, "", TRUE)
        p5 == cell(p4, 0, 14, "   - Annual ROI (%):         " \o Pct(arp),
                   0, FALSE, "", TRUE)
        p6 == cell(p5, 0, 14, "   - Quarterly Rent (USD):   " \o Usd(qr),
                   0, FALSE, "", TRUE)
        p7 == cell(p6, 0, 14, "   - Quarterly ROI (%):      " \o Pct(qrp),
                   0, FALSE, "", TRUE)
    IN  ln(p7, 10)

col_width == 150
row_height == 18

\* Lines 242-258: the heading, the header row (light gray fill, black text),
\* then the colours of the data rows.
TableHeader(p) ==
    LET p1 == set_font(p, "Helvetica", "", 12)
        p2 == cell(p1, 0, 16, "3. Quarterly Rent Breakdown:", 0, FALSE, "", TRUE)
        p3 == set_font(p2, "Helvetica", "", 11)
        p4 == set_text_color(set_fill_color(p3, LIGHT_GRAY), BLACK)
        p5 == cell(p4, col_width, row_height, "Quarter", 1, TRUE, "C", FALSE)
        p6 == cell(p5, col_width, row_height, "Rent (USD)", 1, TRUE, "C", FALSE)
        p7 == ln(p6, row_height)
    IN  set_text_color(set_fill_color(p7, BLACK), WHITE)

\* Lines 260-264: one pass of the loop over df_quarters.iterrows().
TableRow(p, df_row) ==
    LET q  == df_row.Quarter
        r  == Usd(df_row.Rent)
        p1 == cell(p, col_width, row_height, q, 1, TRUE, "C", FALSE)
        p2 == cell(p1, col_width, row_height, r, 1, TRUE, "C", FALSE)
    IN  ln(p2, row_height)

\* Lines 271-273.
ChartsHeading(p) ==
    text(set_text_color(set_font(p, "Helvetica", "B", 14), WHITE),
         20, 40, "4. Charts:")

\* pdf.output(dest="S").encode("latin1"): the pages, and the /CreationDate
\* that FPDF stamps into every document it writes.
Output(p, now) == [pages |-> p.pages, creation_date |-> now]

(***************************************************************************)
(* Initial states: every session has read its sliders.                     *)
(***************************************************************************)
\* The sessions in "running" run the script, each with inputs of its own;
\* the others have no run.
InitWith(running, prices, rents, variants) ==
    /\ \E p \in [running -> prices] :
           purchase_price =
               [s \in Sessions |-> IF s \in running THEN p[s] ELSE PRICE_DEFAULT]
    /\ \E t \in [running -> rents] :
           rent_pct =
               [s \in Sessions |->
                    RentValue(IF s \in running THEN t[s]
                                               ELSE RENT_DEFAULT_POSITION)]
    /\ variant \in variants
    /\ pc = [s \in Sessions |-> IF s \in running THEN "calc" ELSE "end"]
    /\ calc = [s \in Sessions |-> NoMetrics]
    /\ df_quarters = [s \in Sessions |-> <<>>]
    /\ screen = [s \in Sessions |-> NoScreen]
    /\ figs = <<>>
    /\ figure = [id \in FigIds |-> NoFigure]
    /\ name_seq = 0
    /\ fs = [n \in Names |-> NoFile]
    /\ tmp_bar = [s \in Sessions |-> <<>>]
    /\ tmp_pie = [s \in Sessions |-> <<>>]
    /\ pdf = [s \in Sessions |-> NoPdf]
    /\ row = [s \in Sessions |-> 0]
    /\ pdf_bytes = [s \in Sessions |-> <<>>]
    /\ returned = [s \in Sessions |-> <<>>]
    /\ download = [s \in Sessions |-> <<>>]
    /\ exc = [s \in Sessions |-> <<>>]
    /\ clock = 0

\* One session runs the script, with any inputs of the grid.
Init == InitWith({"s1"}, GridPrices, GridRents, Variants)

\* Two sessions run the script at the same time, both with the default
\* inputs.
ParInit ==
    InitWith(Sessions, {PRICE_DEFAULT}, {RENT_DEFAULT_POSITION}, {"illustrated"})

Goto(s, label) == pc' = [pc EXCEPT ![s] = label]

\* An exception nothing catches: it ends the session's script run.
Raise(s, e) ==
    /\ pc' = [pc EXCEPT ![s] = "raised"]
    /\ exc' = [exc EXCEPT ![s] = <<e>>]

(***************************************************************************)
(* The script, top to bottom.                                              *)
(***************************************************************************)
\* Lines 40-57.
Calculate(s) ==
    /\ pc[s] = "calc"
    /\ LET m == Metrics(purchase_price[s], rent_pct[s])
       IN  IF \E k \in DOMAIN m : m[k] = ZeroDivision
           THEN /\ Raise(s, "ZeroDivisionError")
                /\ UNCHANGED <<calc, df_quarters>>
           ELSE /\ calc' = [calc EXCEPT ![s] = m]
                /\ df_quarters' =
                       [df_quarters EXCEPT ![s] = QuartersFrame(m.quarterly_rent)]
                /\ Goto(s, "display")
                /\ UNCHANGED exc
    /\ UNCHANGED <<inputs, screen, pyplot, tmpdir, report, result, clock>>

\* Lines 62-118.
Display(s) ==
    /\ pc[s] = "display"
    /\ screen' = [screen EXCEPT ![s] =
                      [metrics |-> SummaryMetrics(purchase_price[s], calc[s]),
                       table   |-> StyledTable(df_quarters[s])]]
    /\ Goto(s, "button")
    /\ UNCHANGED <<inputs, calc, df_quarters, pyplot, tmpdir, report, result,
                   exc, clock>>

\* Line 297: st.button is True in the run a click starts, False otherwise.
Button(s) ==
    /\ pc[s] = "button"
    /\ \/ Goto(s, "subplots_bar")
       \/ Goto(s, "end")
    /\ UNCHANGED <<inputs, script, pyplot, tmpdir, report, result, exc, clock>>

(***************************************************************************)
(* create_pdf_with_charts, step A: the Matplotlib figures.                 *)
(***************************************************************************)
\* Line 155.
SubplotsBar(s) ==
    /\ pc[s] = "subplots_bar"
    /\ figure' = [figure EXCEPT ![<<s, "bar">>] = Subplots(<<6, 4>>, s)]
    /\ figs' = Append(figs, <<s, "bar">>)
    /\ Goto(s, "draw_bar")
    /\ UNCHANGED <<inputs, script, tmpdir, report, result, exc, clock>>

\* Lines 156-163.
DrawBar(s) ==
    /\ pc[s] = "draw_bar"
    /\ figure' = [figure EXCEPT ![<<s, "bar">>].axes = BarArtists(df_quarters[s]),
                                ![<<s, "bar">>].by = @ \cup {s}]
    /\ Goto(s, "tight_bar")
    /\ UNCHANGED <<inputs, script, figs, tmpdir, report, result, exc, clock>>

\* plt.tight_layout() (lines 164 and 185) lays out pyplot's current figure.
PltTightLayout(s, next) ==
    /\ figure' = [figure EXCEPT ![CurrentFigure] = TightLayout(@, s)]
    /\ Goto(s, next)
    /\ UNCHANGED <<inputs, script, figs, tmpdir, report, result, exc, clock>>

\* Line 164.
TightLayoutBar(s) ==
    /\ pc[s] = "tight_bar"
    /\ PltTightLayout(s, "tmp_bar")

\* tempfile.NamedTemporaryFile(delete=False, suffix=".png") (lines 166 and
\* 187): a new, empty file under a name not used before, or OSError.
NamedTemporaryFile(s, handle, next) ==
    \/ /\ name_seq' = name_seq + 1
       /\ fs' = [fs EXCEPT ![name_seq'] = EmptyFile]
       /\ handle' = [handle EXCEPT ![s] =
                         <<[name |-> name_seq', closed |-> FALSE]>>]
       /\ Goto(s, next)
       /\ UNCHANGED exc
    \/ /\ Raise(s, "OSError")
       /\ UNCHANGED <<name_seq, fs, handle>>

\* Line 166.
TmpBar(s) ==
    /\ pc[s] = "tmp_bar"
    /\ NamedTemporaryFile(s, tmp_bar, "save_bar")
    /\ UNCHANGED <<inputs, script, pyplot, tmp_pie, report, result, clock>>

\* fig.savefig(tmp.name, ...) (lines 167 and 188): the PNG is written, or
\* the write fails.
Savefig(s, id, handle, next) ==
    \/ /\ fs' = [fs EXCEPT ![handle[s][1].name].data = <<Png(figure[id])>>]
       /\ Goto(s, next)
       /\ UNCHANGED exc
    \/ /\ Raise(s, "OSError")
       /\ UNCHANGED fs

\* Mutant of SaveBar: the handle is closed as soon as the chart is saved.
SaveBarClosing(s) ==
    /\ pc[s] = "save_bar"
    /\ fs' = [fs EXCEPT ![tmp_bar[s][1].name].data = <<Png(figure[<<s, "bar">>])>>]
    /\ tmp_bar' = [tmp_bar EXCEPT ![s][1].closed = TRUE]
    /\ Goto(s, "close_bar")
    /\ UNCHANGED <<inputs, script, pyplot, name_seq, tmp_pie, report, result,
                   exc, clock>>

\* Line 167.
SaveBar(s) ==
    /\ pc[s] = "save_bar"
    /\ Savefig(s, <<s, "bar">>, tmp_bar, "close_bar")
    /\ UNCHANGED <<inputs, script, pyplot, name_seq, tmp_bar, tmp_pie,
                   report, result, clock>>

\* plt.close(fig) (lines 168 and 189).
PltClose(s, id, next) ==
    /\ figs' = Unregister(figs, id)
    /\ Goto(s, next)
    /\ UNCHANGED <<inputs, script, figure, tmpdir, report, result, exc, clock>>

\* Line 168.
CloseBar(s) ==
    /\ pc[s] = "close_bar"
    /\ PltClose(s, <<s, "bar">>, "subplots_pie")

\* Line 171.
SubplotsPie(s) ==
    /\ pc[s] = "subplots_pie"
    /\ figure' = [figure EXCEPT ![<<s, "pie">>] = Subplots(<<5, 5>>, s)]
    /\ figs' = Append(figs, <<s, "pie">>)
    /\ Goto(s, "draw_pie")
    /\ UNCHANGED <<inputs, script, tmpdir, report, result, exc, clock>>

\* Lines 172-184: the pie is drawn, or pie() raises on a zero sum.
DrawPie(s) ==
    /\ pc[s] = "draw_pie"
    /\ LET values == PieValues(purchase_price[s], calc[s].annual_rent)
       IN  \/ /\ figure' = [figure EXCEPT
                                ![<<s, "pie">>].axes = PieArtists(values),
                                ![<<s, "pie">>].by = @ \cup {s}]
              /\ Goto(s, "tight_pie")
              /\ UNCHANGED exc
           \/ /\ ~PieDrawable(values)
              /\ Raise(s, "ValueError")
              /\ UNCHANGED figure
    /\ UNCHANGED <<inputs, script, figs, tmpdir, report, result, clock>>

\* Line 185.
TightLayoutPie(s) ==
    /\ pc[s] = "tight_pie"
    /\ PltTightLayout(s, "tmp_pie")

\* Line 187.
TmpPie(s) ==
    /\ pc[s] = "tmp_pie"
    /\ NamedTemporaryFile(s, tmp_pie, "save_pie")
    /\ UNCHANGED <<inputs, script, pyplot, tmp_bar, report, result, clock>>

\* Line 188.
SavePie(s) ==
    /\ pc[s] = "save_pie"
    /\ Savefig(s, <<s, "pie">>, tmp_pie, "close_pie")
    /\ UNCHANGED <<inputs, script, pyplot, name_seq, tmp_bar, tmp_pie,
                   report, result, clock>>

\* Line 189.
ClosePie(s) ==
    /\ pc[s] = "close_pie"
    /\ PltClose(s, <<s, "pie">>, "new_pdf")

(***************************************************************************)
(* create_pdf_with_charts, step B: the PDF.                                *)
(***************************************************************************)
\* A step that only changes the session's FPDF object.
Layout(s, from, p, next) ==
    /\ pc[s] = from
    /\ pdf' = [pdf EXCEPT ![s] = p]
    /\ Goto(s, next)
    /\ UNCHANGED <<inputs, script, pyplot, tmpdir, row, result, exc, clock>>

\* Line 192.
NewPdf(s) == Layout(s, "new_pdf", FPDF, "add_page_1")

\* Line 195.
AddPage1(s) == Layout(s, "add_page_1", add_page(pdf[s]), "page_setup_1")

\* Line 196.
PageSetup1(s) == Layout(s, "page_setup_1", page_setup(pdf[s]), "branding")

\* Lines 198-221.
BrandingStep(s) == Layout(s, "branding", Branding(pdf[s]), "inputs")

\* Lines 223-230.
InputsStep(s) ==
    Layout(s, "inputs",
           InputParameters(pdf[s], purchase_price[s], rent_pct[s]), "outputs")

\* Lines 232-240.
OutputsStep(s) ==
    Layout(s, "outputs",
           ComputedOutputs(pdf[s], calc[s].annual_rent, calc[s].annual_roi_pct,
                           calc[s].quarterly_rent, calc[s].quarterly_roi_pct),
           "table_header")

\* Lines 242-258.
TableHeaderStep(s) ==
    Layout(s, "table_header", TableHeader(pdf[s]), "table_rows")

\* Mutant of TableRows: the loop stops one row early.
TableRowsShort(s) ==
    /\ pc[s] = "table_rows"
    /\ \/ /\ row[s] < Len(df_quarters[s]) - 1
          /\ row' = [row EXCEPT ![s] = @ + 1]
          /\ pdf' = [pdf EXCEPT ![s] = TableRow(@, df_quarters[s][row'[s]])]
          /\ UNCHANGED pc
       \/ /\ row[s] >= Len(df_quarters[s]) - 1
          /\ Goto(s, "add_page_2")
          /\ UNCHANGED <<pdf, row>>
    /\ UNCHANGED <<inputs, script, pyplot, tmpdir, result, exc, clock>>

\* Lines 259-264: the loop takes the next row of df_quarters, or ends.
TableRows(s) ==
    /\ pc[s] = "table_rows"
    /\ \/ /\ row[s] < Len(df_quarters[s])
          /\ row' = [row EXCEPT ![s] = @ + 1]
          /\ pdf' = [pdf EXCEPT ![s] = TableRow(@, df_quarters[s][row'[s]])]
          /\ UNCHANGED pc
       \/ /\ row[s] >= Len(df_quarters[s])
          /\ Goto(s, "add_page_2")
          /\ UNCHANGED <<pdf, row>>
    /\ UNCHANGED <<inputs, script, pyplot, tmpdir, result, exc, clock>>

\* Line 267.
AddPage2(s) == Layout(s, "add_page_2", add_page(pdf[s]), "page_setup_2")

\* Mutant of PageSetup2: the second page is not set up.
PageSetup2Missing(s) == Layout(s, "page_setup_2", pdf[s], "charts")

\* Line 268.
PageSetup2(s) == Layout(s, "page_setup_2", page_setup(pdf[s]), "charts")

\* Lines 271-273.
ChartsStep(s) == Layout(s, "charts", ChartsHeading(pdf[s]), "image_bar")

\* pdf.image(tmp.name, ...) (lines 276 and 279): FPDF reads the file now;
\* it raises when the file is missing or holds no image, and when reading or
\* decoding it fails.
PdfImage(s, handle, x, y, w, next) ==
    LET f == fs[handle[s][1].name]
    IN  \/ /\ f.exists /\ f.data # <<>>
           /\ pdf' = [pdf EXCEPT ![s] = image(@, f.data[1], x, y, w)]
           /\ Goto(s, next)
           /\ UNCHANGED exc
        \/ /\ Raise(s, "RuntimeError")
           /\ UNCHANGED pdf

\* Line 276.
ImageBarStep(s) ==
    /\ pc[s] = "image_bar"
    /\ PdfImage(s, tmp_bar, 20, 60, 500, "image_pie")
    /\ UNCHANGED <<inputs, script, pyplot, tmpdir, row, result, clock>>

\* Mutant of ImagePieStep: an image that cannot be embedded is left out.
ImagePieStepLenient(s) ==
    /\ pc[s] = "image_pie"
    /\ \/ pdf' = [pdf EXCEPT ![s] =
                      image(@, fs[tmp_pie[s][1].name].data[1], 150, 380, 300)]
       \/ UNCHANGED pdf
    /\ Goto(s, "output")
    /\ UNCHANGED <<inputs, script, pyplot, tmpdir, row, result, exc, clock>>

\* Line 279.
ImagePieStep(s) ==
    /\ pc[s] = "image_pie"
    /\ PdfImage(s, tmp_pie, 150, 380, 300, "output")
    /\ UNCHANGED <<inputs, script, pyplot, tmpdir, row, result, clock>>

\* Line 282.
OutputStep(s) ==
    /\ pc[s] = "output"
    /\ \/ /\ pdf_bytes' = [pdf_bytes EXCEPT ![s] = <<Output(pdf[s], clock)>>]
          /\ Goto(s, "close_tmp")
          /\ UNCHANGED exc
       \/ /\ Raise(s, "UnicodeEncodeError")
          /\ UNCHANGED pdf_bytes
    /\ UNCHANGED <<inputs, script, pyplot, tmpdir, report, returned, download,
                   clock>>

(***************************************************************************)
(* Cleanup and return (lines 284-293).                                     *)
(***************************************************************************)
\* Lines 285-286.
CloseTmp(s) ==
    /\ pc[s] = "close_tmp"
    /\ tmp_bar' = [tmp_bar EXCEPT ![s][1].closed = TRUE]
    /\ tmp_pie' = [tmp_pie EXCEPT ![s][1].closed = TRUE]
    /\ Goto(s, "remove_bar")
    /\ UNCHANGED <<inputs, script, pyplot, name_seq, fs, report, result, exc,
                   clock>>

\* os.remove(name) inside try ... except OSError: pass (lines 287-291): the
\* file is removed and the try block goes on, or OSError ends the try block.
OsRemove(s, handle, next) ==
    \/ /\ fs' = [fs EXCEPT ![handle[s][1].name] = NoFile]
       /\ Goto(s, next)
    \/ /\ Goto(s, "return")
       /\ UNCHANGED fs

\* Line 288.
RemoveBar(s) ==
    /\ pc[s] = "remove_bar"
    /\ OsRemove(s, tmp_bar, "remove_pie")
    /\ UNCHANGED <<inputs, script, pyplot, name_seq, tmp_bar, tmp_pie, report,
                   result, exc, clock>>

\* Line 289.
RemovePie(s) ==
    /\ pc[s] = "remove_pie"
    /\ OsRemove(s, tmp_pie, "return")
    /\ UNCHANGED <<inputs, script, pyplot, name_seq, tmp_bar, tmp_pie, report,
                   result, exc, clock>>

\* Line 293, and the assignment of line 298.
Return(s) ==
    /\ pc[s] = "return"
    /\ returned' = [returned EXCEPT ![s] = pdf_bytes[s]]
    /\ Goto(s, "download_button")
    /\ UNCHANGED <<inputs, script, pyplot, tmpdir, report, pdf_bytes, download,
                   exc, clock>>

\* Lines 308-313.
DownloadButton(s) ==
    /\ pc[s] = "download_button"
    /\ download' = [download EXCEPT ![s] =
                        <<[label     |-> "Click here to save your ROI_Report_with_Charts.pdf",
                           data      |-> returned[s][1],
                           file_name |-> "ROI_Report_with_Charts.pdf",
                           mime      |-> "application/pdf"]>>]
    /\ Goto(s, "end")
    /\ UNCHANGED <<inputs, script, pyplot, tmpdir, report, pdf_bytes, returned,
                   exc, clock>>

\* Time passes.
Tick ==
    /\ clock < MaxClock
    /\ clock' = clock + 1
    /\ UNCHANGED <<inputs, pc, script, pyplot, tmpdir, report, result, exc>>

Step(s) ==
    \/ Calculate(s) \/ Display(s) \/ Button(s)
    \/ SubplotsBar(s) \/ DrawBar(s) \/ TightLayoutBar(s) \/ TmpBar(s)
    \/ SaveBar(s) \/ CloseBar(s)
    \/ SubplotsPie(s) \/ DrawPie(s) \/ TightLayoutPie(s) \/ TmpPie(s)
    \/ SavePie(s) \/ ClosePie(s)
    \/ NewPdf(s) \/ AddPage1(s) \/ PageSetup1(s) \/ BrandingStep(s)
    \/ InputsStep(s) \/ OutputsStep(s) \/ TableHeaderStep(s) \/ TableRows(s)
    \/ AddPage2(s) \/ PageSetup2(s) \/ ChartsStep(s)
    \/ ImageBarStep(s) \/ ImagePieStep(s) \/ OutputStep(s)
    \/ CloseTmp(s) \/ RemoveBar(s) \/ RemovePie(s) \/ Return(s)
    \/ DownloadButton(s)

Next == Tick \/ \E s \in Sessions : Step(s)

Spec == Init /\ [][Next]_vars

ParSpec == ParInit /\ [][Next]_vars

(***************************************************************************)
(* Vocabulary of the properties.                                           *)
(***************************************************************************)
\* The calculations of the session have run.
Calculated(s) == df_quarters[s] # <<>>

\* The call of create_pdf_with_charts has returned or raised.
Exited(s) == returned[s] # <<>> \/ (pc[s] = "raised" /\ figure[<<s, "bar">>].made)

\* The temporary files the call has created.
Handles(s) == tmp_bar[s] \o tmp_pie[s]

Images(page) == SelectSeq(page, LAMBDA m : m.op = "image")
TableCells(page) == SelectSeq(page, LAMBDA m : m.op = "cell" /\ m.border = 1)
Shows(png, artist) == Len(png.axes) = 1 /\ png.axes[1].artist = artist

\* Both pages, the table and both chart images are in the document.
Complete(doc) ==
    /\ Len(doc.pages) = 2
    /\ Len(TableCells(doc.pages[1])) = 2 + 2 * Len(quarters)
    /\ Images(doc.pages[1]) = <<>>
    /\ LET imgs == Images(doc.pages[2])
       IN  /\ Len(imgs) = 2
           /\ Shows(imgs[1].png, "bar")
           /\ Shows(imgs[2].png, "pie")

\* Comparison of the reals n1 * 2^e1 and n2 * 2^e2: -1, 0 or 1.
RealCmp(n1, e1, n2, e2) ==
    LET e == IF e1 < e2 THEN e1 ELSE e2
    IN  BigCmp(ShiftLeft(n1, e1 - e), ShiftLeft(n2, e2 - e))

\* |x - y| <= 1e-9 * y for the reals x = n1 * 2^e1 and y = n2 * 2^e2.
RealClose(n1, e1, n2, e2) ==
    LET e == IF e1 < e2 THEN e1 ELSE e2
        x == ShiftLeft(n1, e1 - e)
        y == ShiftLeft(n2, e2 - e)
        d == IF BigCmp(x, y) >= 0 THEN BigSub(x, y) ELSE BigSub(y, x)
    IN  BigCmp(BigMulSmall(BigMulSmall(BigMulSmall(d, 1000), 1000), 1000), y) <= 0

\* annual_rent against purchase_price * rent_pct / 100 in real arithmetic:
\* 100 * annual_rent against purchase_price * rent_pct.
AnnualRentExact(s) ==
    RealCmp(BigMulSmall(calc[s].annual_rent[1], 100), calc[s].annual_rent[2],
            BigMulSmall(rent_pct[s][1], purchase_price[s]), rent_pct[s][2]) = 0

AnnualRentClose(s) ==
    RealClose(BigMulSmall(calc[s].annual_rent[1], 100), calc[s].annual_rent[2],
              BigMulSmall(rent_pct[s][1], purchase_price[s]), rent_pct[s][2])

\* 4 * quarter = whole in real arithmetic.
FourTimes(quarter, whole) ==
    RealCmp(BigMulSmall(quarter[1], 4), quarter[2], whole[1], whole[2]) = 0

\* The document a call with these inputs builds when no other call runs.
RECURSIVE TableRowsOf(_, _, _)
TableRowsOf(p, df, n) ==
    IF n = 0 THEN p ELSE TableRow(TableRowsOf(p, df, n - 1), df[n])

SoloBarPng(s, df) ==
    Png(TightLayout([Subplots(<<6, 4>>, s) EXCEPT !.axes = BarArtists(df)], s))

SoloPiePng(s, values) ==
    Png(TightLayout([Subplots(<<5, 5>>, s) EXCEPT !.axes = PieArtists(values)], s))

SoloPages(s) ==
    LET price == purchase_price[s]
        m  == Metrics(price, rent_pct[s])
        df == QuartersFrame(m.quarterly_rent)
        p1 == Branding(page_setup(add_page(FPDF)))
        p2 == ComputedOutputs(InputParameters(p1, price, rent_pct[s]),
                              m.annual_rent, m.annual_roi_pct,
                              m.quarterly_rent, m.quarterly_roi_pct)
        p3 == TableRowsOf(TableHeader(p2), df, Len(df))
        p4 == ChartsHeading(page_setup(add_page(p3)))
        p5 == image(p4, SoloBarPng(s, df), 20, 60, 500)
    IN  image(p5, SoloPiePng(s, PieValues(price, m.annual_rent)),
              150, 380, 300).pages

(***************************************************************************)
(* C1.  On every exit path of create_pdf_with_charts, normal return or     *)
(* exception, both temporary PNG files the call created have been closed   *)
(* and deleted: no temporary file of the call exists afterwards.           *)
(***************************************************************************)
C1_TempFilesReleased ==
    \A s \in Sessions :
        Exited(s) =>
            \A i \in 1..Len(Handles(s)) :
                /\ Handles(s)[i].closed
                /\ ~fs[Handles(s)[i].name].exists

(***************************************************************************)
(* C2.  The export is all or nothing: a call that raised returned no bytes *)
(* and no download button is offered; bytes are returned, and a download   *)
(* offered, only for the serialized document, which holds both pages, the  *)
(* whole table and both chart images, each exactly once.                   *)
(***************************************************************************)
C2_AllOrNothing ==
    \A s \in Sessions :
        /\ pc[s] = "raised" => returned[s] = <<>> /\ download[s] = <<>>
        /\ returned[s] # <<>> =>
               /\ returned[s] = pdf_bytes[s]
               /\ returned[s][1].pages = pdf[s].pages
               /\ Complete(returned[s][1])
        /\ download[s] # <<>> =>
               /\ returned[s] # <<>>
               /\ download[s][1].data = returned[s][1]

\* A run whose pie image could not be embedded: page 2 holds the bar image,
\* and nothing is returned or offered.
C2_Witness ==
    \E s \in Sessions :
        /\ pc[s] = "raised"
        /\ exc[s] = <<"RuntimeError">>
        /\ Len(pdf[s].pages) = 2
        /\ Len(Images(pdf[s].pages[2])) = 1

(***************************************************************************)
(* C3.  The requested variant fixes the shape of the exported document: a  *)
(* plain export ends with exactly one page, one table of 4 data rows and   *)
(* no image; an illustrated export ends with exactly two pages and the two *)
(* images, bar chart then pie chart, on page 2.                            *)
(***************************************************************************)
C3_VariantFixesShape ==
    \A s \in Sessions :
        download[s] # <<>> =>
            LET pages == download[s][1].data.pages
            IN  /\ variant = "plain" =>
                       /\ Len(pages) = 1
                       /\ Len(TableCells(pages[1])) = 2 + 2 * 4
                       /\ Images(pages[1]) = <<>>
                /\ variant = "illustrated" => Complete(download[s][1].data)

(***************************************************************************)
(* C4.  Calls share no mutable state: a figure is written only by the      *)
(* session that created it, and every call returns the document it would   *)
(* build if it ran alone, however the steps of the calls interleave.       *)
(***************************************************************************)
C4_NoSharedState ==
    /\ \A id \in FigIds : figure[id].by \subseteq {id[1]}
    /\ \A s \in Sessions :
           returned[s] # <<>> => returned[s][1].pages = SoloPages(s)

(***************************************************************************)
(* C5.  For all slider inputs the metrics equal their reference            *)
(* definitions: annual_rent = purchase_price * rent_pct / 100,             *)
(* quarterly_rent * 4 = annual_rent, annual_roi_pct = rent_pct and         *)
(* quarterly_roi_pct * 4 = annual_roi_pct, and the calculation never       *)
(* fails.  C5_MetricsExact reads every equation exactly; C5_MetricsClose   *)
(* reads the first within a relative tolerance of 1e-9.                    *)
(***************************************************************************)
C5_MetricsExact ==
    \A s \in Sessions :
        /\ exc[s] # <<"ZeroDivisionError">>
        /\ Calculated(s) =>
               /\ AnnualRentExact(s)
               /\ FourTimes(calc[s].quarterly_rent, calc[s].annual_rent)
               /\ calc[s].annual_roi_pct = rent_pct[s]
               /\ FourTimes(calc[s].quarterly_roi_pct, calc[s].annual_roi_pct)

C5_MetricsClose ==
    \A s \in Sessions :
        /\ exc[s] # <<"ZeroDivisionError">>
        /\ Calculated(s) =>
               /\ AnnualRentClose(s)
               /\ FourTimes(calc[s].quarterly_rent, calc[s].annual_rent)
               /\ calc[s].annual_roi_pct = rent_pct[s]
               /\ FourTimes(calc[s].quarterly_roi_pct, calc[s].annual_roi_pct)

\* Calculated metrics whose annual_rent was rounded.
C5_Witness ==
    \E s \in Sessions :
        Calculated(s) /\ ~AnnualRentExact(s) /\ calc[s].quarterly_rent # FZero

(***************************************************************************)
(* C6.  With purchase_price = 0 and any rent_pct the calculation and the   *)
(* export do not end in a division error: annual_rent is 0 and the pie     *)
(* chart is produced, with an empty percentage label on the zero slice.    *)
(***************************************************************************)
C6_ZeroPrice ==
    \A s \in Sessions :
        purchase_price[s] = 0 =>
            /\ exc[s] # <<"ZeroDivisionError">>
            /\ exc[s] # <<"ValueError">>
            /\ Calculated(s) => calc[s].annual_rent = FZero
            /\ returned[s] # <<>> =>
                   LET pie == Images(returned[s][1].pages[2])[2].png.axes[1]
                   IN  \E i \in 1..Len(pie.x) :
                           pie.x[i] = FZero /\ pie.autotexts[i] = ""

(***************************************************************************)
(* C7.  The Quarterly Breakdown has exactly 4 entries, Q1 to Q4 in order,  *)
(* each with rent quarterly_rent; the table of the PDF is one shaded       *)
(* header row followed by exactly those 4 rows in that order, each showing *)
(* the rent as the screen shows it.                                        *)
(***************************************************************************)
C7_QuarterlyTable ==
    \A s \in Sessions :
        /\ Calculated(s) =>
               /\ Len(df_quarters[s]) = 4
               /\ \A i \in 1..4 :
                      /\ df_quarters[s][i].Quarter = <<"Q1", "Q2", "Q3", "Q4">>[i]
                      /\ df_quarters[s][i].Rent = calc[s].quarterly_rent
        /\ Len(pdf[s].pages) >= 2 =>
               LET cells == TableCells(pdf[s].pages[1])
               IN  /\ Len(cells) = 10
                   /\ cells[1].txt = "Quarter" /\ cells[2].txt = "Rent (USD)"
                   /\ \A i \in 1..2 :
                          /\ cells[i].fill
                          /\ cells[i].fill_color = LIGHT_GRAY
                          /\ cells[i].fill_color # cells[3].fill_color
                   /\ Len(screen[s].table) = 4
                   /\ \A i \in 1..4 :
                          /\ cells[2 * i + 1].txt = df_quarters[s][i].Quarter
                          /\ cells[2 * i + 1].txt = screen[s].table[i][1]
                          /\ cells[2 * i + 2].txt = screen[s].table[i][2]
                          /\ cells[2 * i + 2].txt = Usd(calc[s].quarterly_rent)

\* The table of a report with a nonzero quarterly rent is finished.
C7_Witness ==
    \E s \in Sessions :
        Len(pdf[s].pages) >= 2 /\ calc[s].quarterly_rent # FZero

(***************************************************************************)
(* C8.  Report generation is deterministic: two calls with identical       *)
(* inputs return identical bytes, whatever the temporary file names, the   *)
(* time of the call and the other calls.                                   *)
(***************************************************************************)
C8_Deterministic ==
    \A s, t \in Sessions :
        /\ returned[s] # <<>> /\ returned[t] # <<>>
        /\ purchase_price[s] = purchase_price[t]
        /\ rent_pct[s] = rent_pct[t]
        => returned[s] = returned[t]

(***************************************************************************)
(* C9.  Every page of the document is painted: add_page is followed at     *)
(* once by page_setup, and on every page the background fill comes first   *)
(* and the border, inset by the margin, second, before any text, cell or   *)
(* image; nothing is drawn under the background.                           *)
(***************************************************************************)
Background(m) ==
    /\ m.op = "rect"
    /\ m.style = "F"
    /\ <<m.x, m.y, m.w, m.h>> = <<0, 0, PAGE_W, PAGE_H>>
    /\ m.fill_color = BLACK

Border(m) ==
    /\ m.op = "rect"
    /\ m.style = ""
    /\ m.x > 0 /\ m.y = m.x
    /\ m.w = PAGE_W - 2 * m.x /\ m.h = PAGE_H - 2 * m.y
    /\ m.draw_color = WHITE /\ m.line_width = <<2>>

C9_PagesPainted ==
    \A s \in Sessions :
        \A i \in 1..Len(pdf[s].pages) :
            LET page == pdf[s].pages[i]
            IN  IF Len(page) = 0
                THEN i = Len(pdf[s].pages)
                     /\ pc[s] \in {"page_setup_1", "page_setup_2"}
                ELSE /\ Len(page) >= 2
                     /\ Background(page[1])
                     /\ Border(page[2])
                     /\ \A j \in 3..Len(page) : ~Background(page[j])

\* A serialized document: two pages with content.
C9_Witness ==
    \E s \in Sessions :
        pdf_bytes[s] # <<>> /\ \A i \in 1..2 : Len(pdf[s].pages[i]) > 2

(***************************************************************************)
(* C10.  Within one call each temporary PNG is written before any page is  *)
(* built and so before it is embedded, the bar image is written and        *)
(* embedded before the pie image, both are embedded before the document is *)
(* serialized, and no temporary file is closed or deleted before that.     *)
(***************************************************************************)
C10_TempFileOrder ==
    \A s \in Sessions :
        /\ tmp_pie[s] # <<>> =>
               /\ tmp_bar[s] # <<>>
               /\ fs[tmp_bar[s][1].name].exists =>
                      fs[tmp_bar[s][1].name].data # <<>>
        /\ pdf[s].made =>
               /\ Len(Handles(s)) = 2
               /\ \A i \in 1..2 :
                      fs[Handles(s)[i].name].exists =>
                          fs[Handles(s)[i].name].data # <<>>
        /\ Len(pdf[s].pages) = 2 =>
               LET imgs == Images(pdf[s].pages[2])
               IN  /\ Len(imgs) <= 2
                   /\ Len(imgs) >= 1 => Shows(imgs[1].png, "bar")
                   /\ Len(imgs) = 2 => Shows(imgs[2].png, "pie")
        /\ pdf_bytes[s] # <<>> =>
               Len(pdf[s].pages) = 2 /\ Len(Images(pdf[s].pages[2])) = 2
        /\ pdf_bytes[s] = <<>> =>
               \A i \in 1..Len(Handles(s)) :
                   /\ ~Handles(s)[i].closed
                   /\ fs[Handles(s)[i].name].exists

\* The document is serialized and the cleanup has removed the bar image.
C10_Witness ==
    \E s \in Sessions :
        /\ pc[s] = "remove_pie"
        /\ ~fs[tmp_bar[s][1].name].exists
        /\ fs[tmp_pie[s][1].name].exists

=============================================================================
